---- MODULE Spec2Model ----
(***************************************************************************)
(* Model of the Sensiron Smart Gadget BLE central driver                   *)
(* (src/smart_gadget.py, class Sensiron).                                  *)
(*                                                                         *)
(* The driver object is the record `self`; every method of the class is an *)
(* operator from a session record (and the call's arguments) to an outcome *)
(* record holding the session after the call, the callbacks the call       *)
(* invoked, the radio-stack requests it made and what it returned or       *)
(* raised.  Optional Python values are sequences of length at most one:    *)
(* None is <<>> and a present value x is <<x>>.                            *)
(***************************************************************************)
EXTENDS Integers, Sequences, FiniteSets, TLC

\* ------------------------------------------------------------------ bounds

\* Number of trigger calls that pass a callback object, per behaviour.
MaxCalls == 2
\* The clock advances in steps of TickMs milliseconds, up to MaxTime.
TickMs == 50
MaxTime == 400

\* --------------------------------------------------------------- constants

ADDR_TYPE_PUBLIC == 0
ADDR_TYPE_RANDOM == 1

ADV_IND == 0
ADV_DIRECT_IND == 1
ADV_SCAN_IND == 2
ADV_NONCONN_IND == 3
ADV_SCAN_RSP == 4

HANDLE_BATT_LEVEL == 29
HANDLE_HUMIDITY == 50
HANDLE_TEMPERATURE == 55

\* Poll interval of the wait loops, in ms.
T_WAIT == 100

S_INIT == 0
S_SCAN_DONE == 1
S_SERVICE_DONE == 2
S_CHARACTERISTIC_DONE == 3
S_READ_BATTERY_DONE == 4
S_READ_TSENSOR_DONE == 5
S_READ_HSENSOR_DONE == 6

\* ------------------------------------------------------------ input domains

None == <<>>
Some(x) == <<x>>

\* Link-layer addresses: the demo's sensor and one other device.
Addrs == {"DE15E4B1D667", "C0FFEE000001"}
AddrTypes == {ADDR_TYPE_PUBLIC, ADDR_TYPE_RANDOM}
AdvTypes == {ADV_IND, ADV_DIRECT_IND, ADV_SCAN_IND, ADV_NONCONN_IND, ADV_SCAN_RSP}
\* decode_name() of an advertisement: "" when it carries no name field.
AdvNames == {"", "Smart Humigadget"}
Rssis == {-60}
\* Connection handles the radio stack hands out; 0 is the first one.
ConnHandles == {0, 1}
ValueHandles == {HANDLE_BATT_LEVEL, HANDLE_HUMIDITY, HANDLE_TEMPERATURE}
\* Attribute payloads: empty, one byte (0x64), four bytes (23.5 as <f).
Payloads == {<<>>, <<100>>, <<0, 0, 188, 65>>}
\* Service identifiers and the handle range each is reported with.
Uuids == {"1800", "180F"}
ServiceRange(u) == IF u = "1800" THEN <<1, 7>> ELSE <<27, 29>>
\* Characteristic identifiers, with (def_handle, value_handle, properties).
CharUuids == {"2A19"}
CharEntry(u) == <<28, 29, 18>>

\* Callables a caller passes as callback: the driver's own completion
\* methods, or a caller's function that does not touch the session.
ScanFns == {"scan_done", "user"}
UserFns == {"user"}
ReadFns == {"read_battery_level_done", "read_temp_sensor_done",
            "read_humid_sensor_done", "user"}

VARIABLES
    self,      \* the Sensiron object
    calls,     \* callbacks invoked by the last call or event, in order
    radio,     \* radio-stack requests made by the last call or event
    ret,       \* what the last call returned, or the exception it raised
    nextId,    \* callback objects handed to triggers so far
    ninv,      \* ninv[i]: times callback i was invoked (counted up to 2)
    gone,      \* gone[i]: "no", or how callback i was given up (see Step)
    last_adv,  \* (address type, address, advertising type) of the last event
               \* when it was a scan result, else None
    closed,    \* connection handles on which the caller called disconnect()
               \* while connected and whose disconnect event is still to come
               \* (kept by the actions of SpecLink only)
    now,       \* time.ticks_ms()
    wait,      \* the caller's wait_for_connection() or wait_for() call
    orch       \* where demo_man() is in its sequence (kept by the actions of
               \* SpecDemo only)

vars == <<self, calls, radio, ret, nextId, ninv, gone, last_adv, closed, now, wait, orch>>

Ids == 1..MaxCalls

\* ------------------------------------------------------- the session object

\* The attributes __init__ leaves undefined (services, characteristics and
\* search_service are only ever assigned by discover_*() and by the caller)
\* are absent, <<>>, until first assigned.
Reset(s) ==
    [s EXCEPT !.state = S_INIT,
              !.search_addr = None,
              !.addr_found = FALSE,
              !.name = None,
              !.rssi = 0,
              !.version = None,
              !.battery = None,
              !.temperature = None,
              !.humidity = None,
              !.addr_type = None,
              !.addr = None,
              !.value = None,
              !.scan_callback = None,
              !.conn_callback = None,
              !.serv_done_callback = None,
              !.char_done_callback = None,
              !.read_callback = None,
              !.write_callback = None,
              !.notify_callback = None,
              !.conn_handle = None,
              !.start_handle = None,
              !.end_handle = None,
              !.value_handle = None]

Blank ==
    [state |-> S_INIT, search_addr |-> None, addr_found |-> FALSE,
     name |-> None, rssi |-> 0, version |-> None, battery |-> None,
     temperature |-> None, humidity |-> None, addr_type |-> None,
     addr |-> None, value |-> None, scan_callback |-> None,
     conn_callback |-> None, serv_done_callback |-> None,
     char_done_callback |-> None, read_callback |-> None,
     write_callback |-> None, notify_callback |-> None,
     conn_handle |-> None, start_handle |-> None, end_handle |-> None,
     value_handle |-> None,
     services |-> None, characteristics |-> None, search_service |-> None]

NewSession == Reset(Blank)

is_connected(s) == s.conn_handle # None

\* Python truth value of an optional integer: None and 0 are false.
TruthyInt(o) == o # None /\ o[1] # 0
\* Python truth value of an optional bytes object: None and b"" are false.
TruthyBytes(o) == o # None /\ o[1] # ""

update_value(s, data) == [s EXCEPT !.value = Some(data)]

\* ------------------------------------------------------------------ outcomes

\* What one call of a method leaves behind: the session, the callbacks it
\* invoked (in order), the radio-stack requests it made (in order) and the
\* value it returned ("None", "True", "False") or the exception it raised.
Out(s, c, r, x) == [s |-> s, calls |-> c, radio |-> r, ret |-> x]
Quiet(s) == Out(s, <<>>, <<>>, "None")

Req(op, args, rej) == [op |-> op, args |-> args, ok |-> ~rej]
Call(slot, cb, args, raised) ==
    [slot |-> slot, id |-> cb.id, fn |-> cb.fn, args |-> args, raised |-> raised]

\* dict[key] = val
DictPut(d, key, val) ==
    [k \in DOMAIN d \cup {key} |-> IF k = key THEN val ELSE d[k]]

EmptyDict == [k \in {} |-> <<>>]

\* ------------------------------------------------------- action trigger methods

\* rej: the radio stack raises OSError on the request.

\* Mutant of scan: the address cached by an earlier scan is kept.
scan_keeps_address(s, callback, rej) ==
    Out([s EXCEPT !.scan_callback = callback],
        <<>>, <<Req("gap_scan", <<2000, 30000, 30000, TRUE>>, rej)>>, "None")

scan(s, callback, rej) ==
    Out([s EXCEPT !.addr_type = None, !.addr = None, !.scan_callback = callback],
        <<>>, <<Req("gap_scan", <<2000, 30000, 30000, TRUE>>, rej)>>, "None")

\* addr_type, addr: optional arguments.  self.debug is not an attribute of the
\* class (the method is _debug), so the parameter-error branch raises
\* AttributeError before its `return False`.
gap_connect(s, addr_type, addr, callback, rej) ==
    LET s1 == IF addr_type # None /\ addr # None
              THEN [s EXCEPT !.addr_type = addr_type, !.addr = addr]
              ELSE s
        s2 == [s1 EXCEPT !.conn_callback = callback]
    IN IF s2.addr_type = None \/ s2.addr = None
       THEN Out(s2, <<>>, <<>>, "AttributeError")
       ELSE Out(s2, <<>>,
                <<Req("gap_connect", <<s2.addr_type[1], s2.addr[1]>>, rej)>>,
                IF rej THEN "False" ELSE "True")

disconnect(s, rej) ==
    IF ~TruthyInt(s.conn_handle)
    THEN Quiet(s)
    ELSE Out(Reset(s), <<>>,
             <<Req("gap_disconnect", <<s.conn_handle[1]>>, rej)>>, "None")

\* Mutant of discover_services: a cache that exists is not emptied.
discover_services_keeps_cache(s, callback, rej) ==
    LET s1 == [s EXCEPT !.services = IF @ = None THEN Some(EmptyDict) ELSE @] IN
    IF ~is_connected(s1)
    THEN Quiet(s1)
    ELSE Out([s1 EXCEPT !.serv_done_callback = callback], <<>>,
             <<Req("gattc_discover_services", <<s1.conn_handle[1]>>, rej)>>,
             "None")

discover_services(s, callback, rej) ==
    LET s1 == [s EXCEPT !.services = Some(EmptyDict)] IN
    IF ~is_connected(s1)
    THEN Quiet(s1)
    ELSE Out([s1 EXCEPT !.serv_done_callback = callback], <<>>,
             <<Req("gattc_discover_services", <<s1.conn_handle[1]>>, rej)>>,
             "None")

discover_characteristics(s, start_handle, end_handle, callback, rej) ==
    LET s1 == [s EXCEPT !.characteristics = Some(EmptyDict)] IN
    IF ~is_connected(s1)
    THEN Quiet(s1)
    ELSE Out([s1 EXCEPT !.char_done_callback = callback], <<>>,
             <<Req("gattc_discover_characteristics",
                   <<s1.conn_handle[1], start_handle, end_handle>>, rej)>>,
             "None")

\* gattc_read(conn_handle, value_handle) with the session's value_handle as it
\* is, None included.
GattcRead(s, rej) == Req("gattc_read", <<s.conn_handle, s.value_handle>>, rej)

\* Mutant of read: the radio stack's OSError is not caught.
read_propagates(s, callback, rej) ==
    IF ~is_connected(s)
    THEN Quiet(s)
    ELSE LET s1 == [s EXCEPT !.read_callback = callback] IN
         Out(s1, <<>>, <<GattcRead(s1, rej)>>, IF rej THEN "OSError" ELSE "None")

read(s, callback, rej) ==
    IF ~is_connected(s)
    THEN Quiet(s)
    ELSE LET s1 == [s EXCEPT !.read_callback = callback] IN
         Out(s1, <<>>, <<GattcRead(s1, rej)>>, "None")

read_battery_level(s, callback, rej) ==
    IF ~is_connected(s)
    THEN Quiet(s)
    ELSE LET s1 == [s EXCEPT !.read_callback = callback,
                             !.value_handle = Some(HANDLE_BATT_LEVEL)] IN
         Out(s1, <<>>, <<GattcRead(s1, rej)>>, "None")

\* Mutant of read_temp_sensor: a callback still pending is not overwritten.
read_temp_sensor_keeps_pending(s, callback, rej) ==
    IF ~is_connected(s)
    THEN Quiet(s)
    ELSE LET s1 == [s EXCEPT !.read_callback = IF @ # None THEN @ ELSE callback,
                             !.value_handle = Some(HANDLE_TEMPERATURE)] IN
         Out(s1, <<>>, <<GattcRead(s1, rej)>>, "None")

read_temp_sensor(s, callback, rej) ==
    IF ~is_connected(s)
    THEN Quiet(s)
    ELSE LET s1 == [s EXCEPT !.read_callback = callback,
                             !.value_handle = Some(HANDLE_TEMPERATURE)] IN
         Out(s1, <<>>, <<GattcRead(s1, rej)>>, "None")

\* Mutant of read_humid_sensor: value_handle is not assigned.
read_humid_sensor_keeps_handle(s, callback, rej) ==
    IF ~is_connected(s)
    THEN Quiet(s)
    ELSE LET s1 == [s EXCEPT !.read_callback = callback] IN
         Out(s1, <<>>, <<GattcRead(s1, rej)>>, "None")

read_humid_sensor(s, callback, rej) ==
    IF ~is_connected(s)
    THEN Quiet(s)
    ELSE LET s1 == [s EXCEPT !.read_callback = callback,
                             !.value_handle = Some(HANDLE_HUMIDITY)] IN
         Out(s1, <<>>, <<GattcRead(s1, rej)>>, "None")

on_notify(s, callback) == Quiet([s EXCEPT !.notify_callback = callback])

\* -------------------------------------------------------------- result decoders

\* struct.unpack("<f", b): the IEEE-754 single whose little-endian bytes are b,
\* as (sign, biased exponent, fraction).
UnpackF32LE(b) ==
    [sign |-> b[4] \div 128,
     exp  |-> (b[4] % 128) * 2 + (b[3] \div 128),
     frac |-> (b[3] % 128) * 65536 + b[2] * 256 + b[1]]

\* Python values kept in the telemetry fields: struct.unpack returns a tuple,
\* even for a single element, and the decoders store it as it is.
PyTuple(x) == [type |-> "tuple", item |-> x]
PyScalar(x) == [type |-> "scalar", item |-> x]

scan_done(s, args) == [s |-> [s EXCEPT !.state = S_SCAN_DONE], raised |-> FALSE]

read_battery_level_done(s, data) ==
    IF Len(data) < 1
    THEN [s |-> s, raised |-> TRUE]
    ELSE [s |-> [s EXCEPT !.battery = Some(PyTuple(data[1])),
                          !.state = S_READ_BATTERY_DONE],
          raised |-> FALSE]

\* Mutant of read_temp_sensor_done: a short payload reads as zero.
read_temp_sensor_done_defaults(s, data) ==
    IF Len(data) < 4
    THEN [s |-> [s EXCEPT !.temperature = Some(PyTuple([sign |-> 0, exp |-> 0, frac |-> 0])),
                          !.state = S_READ_TSENSOR_DONE],
          raised |-> FALSE]
    ELSE [s |-> [s EXCEPT !.temperature = Some(PyTuple(UnpackF32LE(data))),
                          !.state = S_READ_TSENSOR_DONE],
          raised |-> FALSE]

read_temp_sensor_done(s, data) ==
    IF Len(data) < 4
    THEN [s |-> s, raised |-> TRUE]
    ELSE [s |-> [s EXCEPT !.temperature = Some(PyTuple(UnpackF32LE(data))),
                          !.state = S_READ_TSENSOR_DONE],
          raised |-> FALSE]

\* Mutant of read_humid_sensor_done: state is not assigned.
read_humid_sensor_done_keeps_state(s, data) ==
    IF Len(data) < 4
    THEN [s |-> s, raised |-> TRUE]
    ELSE [s |-> [s EXCEPT !.humidity = Some(PyTuple(UnpackF32LE(data)))],
          raised |-> FALSE]

read_humid_sensor_done(s, data) ==
    IF Len(data) < 4
    THEN [s |-> s, raised |-> TRUE]
    ELSE [s |-> [s EXCEPT !.humidity = Some(PyTuple(UnpackF32LE(data))),
                          !.state = S_READ_HSENSOR_DONE],
          raised |-> FALSE]

\* Callables of the caller that trigger, from inside the callback, another
\* operation of the kind just completed, with the callable Again[1] as its
\* callback: a read callback that reads the battery level, and a connect
\* callback that connects to the same address.
Again == Some([id |-> 0, fn |-> "user"])

read_again(s) ==
    [s |-> read_battery_level(s, Again, FALSE).s, raised |-> FALSE]

connect_again(s) ==
    [s |-> gap_connect(s, Some(ADDR_TYPE_RANDOM), s.addr, Again, FALSE).s,
     raised |-> FALSE]

\* Calling the callable cb.fn with args on session s.
Invoke(s, cb, args) ==
    CASE cb.fn = "scan_done" -> scan_done(s, args)
      [] cb.fn = "read_battery_level_done" -> read_battery_level_done(s, args)
      [] cb.fn = "read_temp_sensor_done" -> read_temp_sensor_done(s, args)
      [] cb.fn = "read_humid_sensor_done" -> read_humid_sensor_done(s, args)
      [] cb.fn = "read_again" -> read_again(s)
      [] cb.fn = "connect_again" -> connect_again(s)
      [] OTHER -> [s |-> s, raised |-> FALSE]

\* The radio-stack requests made by the callable cb.fn called on session s.
Requests(s, cb) ==
    CASE cb.fn = "read_again" -> read_battery_level(s, Again, FALSE).radio
      [] cb.fn = "connect_again" ->
             gap_connect(s, Some(ADDR_TYPE_RANDOM), s.addr, Again, FALSE).radio
      [] OTHER -> <<>>

\* `self._x_callback(args); self._x_callback = None`: the slot is cleared
\* after the callback returns, and not at all when the callback raises.
InvokeAndClear(s, slot, args) ==
    LET cb == s[slot][1]
        r == Invoke(s, cb, args)
    IN IF r.raised
       THEN Out(r.s, <<Call(slot, cb, args, TRUE)>>, Requests(s, cb),
                "ValueError")
       ELSE Out([r.s EXCEPT ![slot] = None], <<Call(slot, cb, args, FALSE)>>,
                Requests(s, cb), "None")

\* `self._x_callback(args)` with no clearing after it.
InvokeAndKeep(s, slot, args) ==
    LET cb == s[slot][1]
        r == Invoke(s, cb, args)
    IN Out(r.s, <<Call(slot, cb, args, r.raised)>>, Requests(s, cb),
           IF r.raised THEN "ValueError" ELSE "None")

\* ------------------------------------------------------------ event router

\* _IRQ_SCAN_RESULT.  advname is decode_name(adv_data); rej: the radio stack
\* raises OSError on gap_scan(None), which _irq does not catch.
ConnectableAdv == {ADV_IND, ADV_DIRECT_IND, ADV_SCAN_RSP}

\* Mutant of irq_scan_result: scan responses are not accepted.
irq_scan_result_no_scan_rsp(s, addr_type, addr, adv_type, rssi, advname, rej) ==
    LET nm == IF advname = "" THEN "?" ELSE advname IN
    IF adv_type \in {ADV_IND, ADV_DIRECT_IND} /\ Some(addr) = s.search_addr
    THEN Out([s EXCEPT !.addr_type = Some(addr_type),
                       !.rssi = rssi,
                       !.addr_found = TRUE,
                       !.addr = Some(addr),
                       !.name = IF nm # "?" THEN Some(nm) ELSE @],
             <<>>, <<Req("gap_scan", <<None>>, rej)>>,
             IF rej THEN "OSError" ELSE "None")
    ELSE Quiet(s)

irq_scan_result(s, addr_type, addr, adv_type, rssi, advname, rej) ==
    LET nm == IF advname = "" THEN "?" ELSE advname IN
    IF adv_type \in ConnectableAdv /\ Some(addr) = s.search_addr
    THEN Out([s EXCEPT !.addr_type = Some(addr_type),
                       !.rssi = rssi,
                       !.addr_found = TRUE,
                       !.addr = Some(addr),
                       !.name = IF nm # "?" THEN Some(nm) ELSE @],
             <<>>, <<Req("gap_scan", <<None>>, rej)>>,
             IF rej THEN "OSError" ELSE "None")
    ELSE Quiet(s)

\* Mutant of irq_scan_done: the slot is not cleared after a found device.
irq_scan_done_keeps_slot(s) ==
    IF s.scan_callback # None
    THEN IF TruthyBytes(s.addr)
         THEN InvokeAndKeep(s, "scan_callback", <<s.addr_type, s.addr, s.name>>)
         ELSE InvokeAndKeep(s, "scan_callback", <<None, None, None>>)
    ELSE Quiet(s)

\* _IRQ_SCAN_DONE
irq_scan_done(s) ==
    IF s.scan_callback # None
    THEN IF TruthyBytes(s.addr)
         THEN InvokeAndClear(s, "scan_callback", <<s.addr_type, s.addr, s.name>>)
         ELSE InvokeAndKeep(s, "scan_callback", <<None, None, None>>)
    ELSE Quiet(s)

\* Mutant of irq_peripheral_connect: the address type is not compared.
irq_peripheral_connect_any_type(s, conn_handle, addr_type, addr) ==
    IF Some(addr) = s.addr
    THEN LET s1 == [s EXCEPT !.conn_handle = Some(conn_handle)] IN
         IF s1.conn_callback # None
         THEN InvokeAndClear(s1, "conn_callback", <<>>)
         ELSE Quiet(s1)
    ELSE Quiet(s)

\* _IRQ_PERIPHERAL_CONNECT
irq_peripheral_connect(s, conn_handle, addr_type, addr) ==
    IF Some(addr_type) = s.addr_type /\ Some(addr) = s.addr
    THEN LET s1 == [s EXCEPT !.conn_handle = Some(conn_handle)] IN
         IF s1.conn_callback # None
         THEN InvokeAndClear(s1, "conn_callback", <<>>)
         ELSE Quiet(s1)
    ELSE Quiet(s)

\* Mutant of irq_peripheral_disconnect: only connection_handle is cleared.
irq_peripheral_disconnect_handle_only(s, conn_handle) ==
    IF Some(conn_handle) = s.conn_handle
    THEN Quiet([s EXCEPT !.conn_handle = None])
    ELSE Quiet(s)

\* _IRQ_PERIPHERAL_DISCONNECT
irq_peripheral_disconnect(s, conn_handle) ==
    IF Some(conn_handle) = s.conn_handle THEN Quiet(Reset(s)) ELSE Quiet(s)

\* _IRQ_GATTC_SERVICE_RESULT.  Reading an attribute that was never assigned
\* (services before the first discover_services(), search_service before the
\* caller set it) raises AttributeError at that statement.
irq_gattc_service_result(s, conn_handle, start_handle, end_handle, uuid) ==
    IF Some(conn_handle) = s.conn_handle
    THEN IF s.services = None
         THEN Out(s, <<>>, <<>>, "AttributeError")
         ELSE LET s1 == [s EXCEPT !.services =
                            Some(DictPut(@[1], uuid, <<start_handle, end_handle>>))]
              IN IF s1.search_service = None
                 THEN Out(s1, <<>>, <<>>, "AttributeError")
                 ELSE IF Some(uuid) = s1.search_service
                      THEN Quiet([s1 EXCEPT !.start_handle = Some(start_handle),
                                            !.end_handle = Some(end_handle)])
                      ELSE Quiet(s1)
    ELSE Quiet(s)

\* _IRQ_GATTC_SERVICE_DONE (the event's data is not looked at)
irq_gattc_service_done(s, conn_handle) ==
    LET s1 == [s EXCEPT !.state = S_SERVICE_DONE] IN
    IF s1.serv_done_callback # None
    THEN InvokeAndClear(s1, "serv_done_callback", <<>>)
    ELSE Quiet(s1)

\* _IRQ_GATTC_CHARACTERISTIC_RESULT
irq_gattc_characteristic_result(s, conn_handle, def_handle, value_handle, properties, uuid) ==
    IF Some(conn_handle) = s.conn_handle
    THEN IF s.characteristics = None
         THEN Out(s, <<>>, <<>>, "AttributeError")
         ELSE Quiet([s EXCEPT !.characteristics =
                        Some(DictPut(@[1], uuid,
                                     <<def_handle, value_handle, properties>>))])
    ELSE Quiet(s)

\* _IRQ_GATTC_CHARACTERISTIC_DONE (the event's data is not looked at)
irq_gattc_characteristic_done(s, conn_handle) ==
    LET s1 == [s EXCEPT !.state = S_CHARACTERISTIC_DONE] IN
    IF s1.char_done_callback # None
    THEN InvokeAndClear(s1, "char_done_callback", <<>>)
    ELSE Quiet(s1)

\* Mutant of irq_gattc_read_result: the pending callback is dropped, not
\* invoked.
irq_gattc_read_result_drops(s, conn_handle, value_handle, char_data) ==
    IF Some(conn_handle) = s.conn_handle /\ Some(value_handle) = s.value_handle
    THEN Quiet([update_value(s, char_data) EXCEPT !.read_callback = None])
    ELSE Quiet(s)

\* _IRQ_GATTC_READ_RESULT
irq_gattc_read_result(s, conn_handle, value_handle, char_data) ==
    IF Some(conn_handle) = s.conn_handle /\ Some(value_handle) = s.value_handle
    THEN LET s1 == update_value(s, char_data) IN
         IF s1.read_callback # None
         THEN InvokeAndClear(s1, "read_callback", s1.value[1])
         ELSE Quiet(s1)
    ELSE Quiet(s)

\* _IRQ_GATTC_READ_DONE
irq_gattc_read_done(s) == Quiet(s)

\* _IRQ_GATTC_WRITE_DONE
irq_gattc_write_done(s, conn_handle, value_handle) ==
    IF Some(conn_handle) = s.conn_handle /\ Some(value_handle) = s.value_handle
    THEN IF s.write_callback # None
         THEN InvokeAndClear(s, "write_callback", <<>>)
         ELSE Quiet(s)
    ELSE Quiet(s)

\* Mutant of irq_gattc_notify: the slot is cleared after the invocation.
irq_gattc_notify_clears(s, conn_handle, value_handle, notify_data) ==
    IF Some(conn_handle) = s.conn_handle /\ Some(value_handle) = s.value_handle
    THEN LET s1 == update_value(s, notify_data) IN
         IF s1.notify_callback # None
         THEN InvokeAndClear(s1, "notify_callback", s1.value[1])
         ELSE Quiet(s1)
    ELSE Quiet(s)

\* _IRQ_GATTC_NOTIFY
irq_gattc_notify(s, conn_handle, value_handle, notify_data) ==
    IF Some(conn_handle) = s.conn_handle /\ Some(value_handle) = s.value_handle
    THEN LET s1 == update_value(s, notify_data) IN
         IF s1.notify_callback # None
         THEN InvokeAndKeep(s1, "notify_callback", s1.value[1])
         ELSE Quiet(s1)
    ELSE Quiet(s)

\* --------------------------------------------------------------- wait loops

\* A call of wait_for_connection(status, timeout_ms) (kind "connection") or
\* of wait_for(state, timeout_ms) (kind "state"): where it is (pc: "loop" at
\* the `while` test, "sleep" in sleep_ms until wake, "done" returned), its
\* arguments, its t0, and what it returned.  hit: the condition waited for
\* held at some instant from the call up to the deadline t0 + timeout_ms.
NoWait ==
    [pc |-> "idle", kind |-> "", status |-> FALSE, state |-> S_INIT, timeout |-> 0,
     t0 |-> 0, wake |-> 0, hit |-> FALSE, result |-> FALSE]

\* One pass of the loop of wait_for_connection at time t: the `while` test,
\* the test of is_connected(), and the return or the start of the sleep.
wait_for_connection(s, w, t) ==
    IF t - w.t0 < w.timeout
    THEN IF is_connected(s) = w.status
         THEN [w EXCEPT !.pc = "done", !.result = TRUE]
         ELSE [w EXCEPT !.pc = "sleep", !.wake = t + T_WAIT]
    ELSE [w EXCEPT !.pc = "done", !.result = FALSE]

\* Mutant of wait_for: the deadline is not tested.
wait_for_no_deadline(s, w, t) ==
    IF s.state = w.state
    THEN [w EXCEPT !.pc = "done", !.result = TRUE]
    ELSE [w EXCEPT !.pc = "sleep", !.wake = t + T_WAIT]

\* One pass of the loop of wait_for at time t.
wait_for(s, w, t) ==
    IF t - w.t0 < w.timeout
    THEN IF s.state = w.state
         THEN [w EXCEPT !.pc = "done", !.result = TRUE]
         ELSE [w EXCEPT !.pc = "sleep", !.wake = t + T_WAIT]
    ELSE [w EXCEPT !.pc = "done", !.result = FALSE]

\* The condition the call w waits for holds in session s.
Awaited(w, s) ==
    IF w.kind = "connection" THEN is_connected(s) = w.status ELSE s.state = w.state

\* The call w after the session became s at time t: hit is set when the call
\* has not returned, t is before its deadline and the condition holds.
Observe(w, s, t) ==
    IF w.pc \in {"loop", "sleep"} /\ t < w.t0 + w.timeout /\ Awaited(w, s)
    THEN [w EXCEPT !.hit = TRUE]
    ELSE w

\* ------------------------------------------------------------- the system

\* One-shot callback slots.
OneShot == {"scan_callback", "conn_callback", "serv_done_callback",
            "char_done_callback", "read_callback", "write_callback"}

\* Identities of the callbacks pending in the one-shot slots of s.
Pending(s) == {s[k][1].id : k \in {j \in OneShot : s[j] # None}}

Times(c, i) == Cardinality({k \in 1..Len(c) : c[k].id = i})
Min(a, b) == IF a < b THEN a ELSE b

\* A callback object for a trigger call: none, or a fresh identity (while
\* the bound allows) with one of the callables fns.  The persistent
\* notification callback is not counted per trigger and has identity 0.
Callbacks(fns) ==
    {None} \cup (IF nextId < MaxCalls
                 THEN {Some([id |-> nextId + 1, fn |-> f]) : f \in fns}
                 ELSE {})

\* The step made by a call or event with outcome r, and what the caller
\* knows about its callbacks afterwards:
\*   cb       the callback object passed (None when there is none);
\*   slot     the one-shot slot of the trigger's kind ("" for an event);
\*   refused  the trigger's precondition did not hold;
\*   resets   the event is a disconnect of the session's own link.
\* gone[i] becomes "refused" when callback i was passed to a refused trigger,
\* the slot's name when i was pending in the slot at a later trigger call of
\* the same kind, and "reset" when i was pending at a disconnect event.
\* cl is the set `closed` after the step, o the position of demo_man().
StepDemo(r, cb, slot, refused, resets, adv, cl, o) ==
    /\ self' = r.s
    /\ calls' = r.calls
    /\ radio' = r.radio
    /\ ret' = r.ret
    /\ nextId' = IF cb = None THEN nextId ELSE nextId + 1
    /\ ninv' = [i \in Ids |-> Min(2, ninv[i] + Times(r.calls, i))]
    /\ gone' = [i \in Ids |->
                  IF cb # None /\ cb[1].id = i /\ refused THEN "refused"
                  ELSE IF slot # "" /\ self[slot] # None /\ self[slot][1].id = i
                       THEN slot
                  ELSE IF resets /\ i \in Pending(self) THEN "reset"
                  ELSE gone[i]]
    /\ last_adv' = adv
    /\ closed' = cl
    /\ now' = now
    /\ wait' = Observe(wait, r.s, now)
    /\ orch' = o

\* A step made outside demo_man().
StepLink(r, cb, slot, refused, resets, adv, cl) ==
    StepDemo(r, cb, slot, refused, resets, adv, cl, orch)

\* A step that neither closes a link nor reports one closed.
Step(r, cb, slot, refused, resets, adv) ==
    StepLink(r, cb, slot, refused, resets, adv, closed)

Init ==
    /\ self = NewSession
    /\ calls = <<>>
    /\ radio = <<>>
    /\ ret = "None"
    /\ nextId = 0
    /\ ninv = [i \in Ids |-> 0]
    /\ gone = [i \in Ids |-> "no"]
    /\ last_adv = None
    /\ closed = {}
    /\ now = 0
    /\ wait = NoWait
    /\ orch = "start"

\* The caller assigns the public attributes search_addr and search_service.
SetSearchAddr(a) ==
    Step(Quiet([self EXCEPT !.search_addr = Some(a)]), None, "", FALSE, FALSE, None)

SetSearchService(u) ==
    Step(Quiet([self EXCEPT !.search_service = Some(u)]), None, "", FALSE, FALSE,
         None)

Scan(cb, rej) ==
    Step(scan(self, cb, rej), cb, "scan_callback", FALSE, FALSE, None)

\* connect is refused when no address is given and none is cached.
NoAddress(t, a) ==
    (t = None \/ a = None) /\ (self.addr_type = None \/ self.addr = None)

GapConnect(t, a, cb, rej) ==
    Step(gap_connect(self, t, a, cb, rej), cb, "conn_callback", NoAddress(t, a),
         FALSE, None)

Disconnect(rej) == Step(disconnect(self, rej), None, "", FALSE, FALSE, None)

\* The connected-only triggers are refused while connection_handle is absent.
DiscoverServices(cb, rej) ==
    Step(discover_services(self, cb, rej), cb, "serv_done_callback",
         self.conn_handle = None, FALSE, None)

DiscoverCharacteristics(sh, eh, cb, rej) ==
    Step(discover_characteristics(self, sh, eh, cb, rej), cb,
         "char_done_callback", self.conn_handle = None, FALSE, None)

Read(cb, rej) ==
    Step(read(self, cb, rej), cb, "read_callback", self.conn_handle = None,
         FALSE, None)

ReadBatteryLevel(cb, rej) ==
    Step(read_battery_level(self, cb, rej), cb, "read_callback",
         self.conn_handle = None, FALSE, None)

ReadTempSensor(cb, rej) ==
    Step(read_temp_sensor(self, cb, rej), cb, "read_callback",
         self.conn_handle = None, FALSE, None)

ReadHumidSensor(cb, rej) ==
    Step(read_humid_sensor(self, cb, rej), cb, "read_callback",
         self.conn_handle = None, FALSE, None)

OnNotify(cb) == Step(on_notify(self, cb), None, "", FALSE, FALSE, None)

IrqScanResult(t, a, adv, rs, nm, rej) ==
    Step(irq_scan_result(self, t, a, adv, rs, nm, rej), None, "", FALSE, FALSE,
         Some(<<t, a, adv>>))

IrqScanDone == Step(irq_scan_done(self), None, "", FALSE, FALSE, None)

IrqPeripheralConnect(h, t, a) ==
    Step(irq_peripheral_connect(self, h, t, a), None, "", FALSE, FALSE, None)

IrqPeripheralDisconnect(h) ==
    Step(irq_peripheral_disconnect(self, h), None, "", FALSE,
         Some(h) = self.conn_handle, None)

IrqGattcServiceResult(h, u) ==
    Step(irq_gattc_service_result(self, h, ServiceRange(u)[1], ServiceRange(u)[2], u),
         None, "", FALSE, FALSE, None)

IrqGattcServiceDone(h) ==
    Step(irq_gattc_service_done(self, h), None, "", FALSE, FALSE, None)

IrqGattcCharacteristicResult(h, u) ==
    Step(irq_gattc_characteristic_result(self, h, CharEntry(u)[1], CharEntry(u)[2],
                                         CharEntry(u)[3], u),
         None, "", FALSE, FALSE, None)

IrqGattcCharacteristicDone(h) ==
    Step(irq_gattc_characteristic_done(self, h), None, "", FALSE, FALSE, None)

IrqGattcReadResult(h, vh, d) ==
    Step(irq_gattc_read_result(self, h, vh, d), None, "", FALSE, FALSE, None)

IrqGattcReadDone == Step(irq_gattc_read_done(self), None, "", FALSE, FALSE, None)

IrqGattcWriteDone(h, vh) ==
    Step(irq_gattc_write_done(self, h, vh), None, "", FALSE, FALSE, None)

IrqGattcNotify(h, vh, d) ==
    Step(irq_gattc_notify(self, h, vh, d), None, "", FALSE, FALSE, None)

\* The same calls and events with the links followed: disconnect() on a
\* connected session puts its handle in `closed`, the disconnect event for a
\* handle takes it out, and, as the radio stack reports events in order, no
\* new link is reported on a handle before the end of the link that had it.
DisconnectLink(rej) ==
    StepLink(disconnect(self, rej), None, "", FALSE, FALSE, None,
             IF is_connected(self) THEN closed \cup {self.conn_handle[1]} ELSE closed)

IrqPeripheralConnectLink(h, t, a) ==
    /\ h \notin closed
    /\ Step(irq_peripheral_connect(self, h, t, a), None, "", FALSE, FALSE, None)

IrqPeripheralDisconnectLink(h) ==
    StepLink(irq_peripheral_disconnect(self, h), None, "", FALSE,
             Some(h) = self.conn_handle, None, closed \ {h})

\* The caller's thread, which runs between the events: it calls one of the
\* wait functions, goes through its loop and sleeps.  The test of the loop
\* and the poll take no time, and sleep_ms returns exactly when due.
Session == <<self, calls, radio, ret, nextId, ninv, gone, last_adv, closed, orch>>

WaitForConnection(status, timeout_ms) ==
    /\ wait.pc = "idle"
    /\ wait' = Observe([NoWait EXCEPT !.pc = "loop", !.kind = "connection",
                                      !.status = status, !.timeout = timeout_ms,
                                      !.t0 = now], self, now)
    /\ UNCHANGED <<Session, now>>

WaitFor(state, timeout_ms) ==
    /\ wait.pc = "idle"
    /\ wait' = Observe([NoWait EXCEPT !.pc = "loop", !.kind = "state",
                                      !.state = state, !.timeout = timeout_ms,
                                      !.t0 = now], self, now)
    /\ UNCHANGED <<Session, now>>

WaitPoll ==
    /\ wait.pc = "loop"
    /\ wait' = IF wait.kind = "connection"
               THEN wait_for_connection(self, wait, now)
               ELSE wait_for(self, wait, now)
    /\ UNCHANGED <<Session, now>>

WaitWake ==
    /\ wait.pc = "sleep"
    /\ now >= wait.wake
    /\ wait' = [wait EXCEPT !.pc = "loop"]
    /\ UNCHANGED <<Session, now>>

Tick ==
    /\ now + TickMs <= MaxTime
    /\ wait.pc # "loop"
    /\ ~(wait.pc = "sleep" /\ now >= wait.wake)
    /\ now' = now + TickMs
    /\ UNCHANGED <<Session, wait>>

Opt(S) == {None} \cup {Some(x) : x \in S}

\* The sensor the caller is after, as in demo_man().
Target == "DE15E4B1D667"

\* Scanning: the caller sets search_addr, scans, and may connect to the
\* sensor found; the radio stack reports advertisements and the end of the
\* scan.
ScanNext ==
    \/ SetSearchAddr(Target)
    \/ \E cb \in Callbacks(ScanFns) : Scan(cb, FALSE)
    \/ \E t \in Opt({ADDR_TYPE_RANDOM}), a \in Opt({Target}) :
          GapConnect(t, a, None, FALSE)
    \/ \E a \in Addrs, adv \in AdvTypes, rs \in Rssis, nm \in AdvNames :
          IrqScanResult(ADDR_TYPE_RANDOM, a, adv, rs, nm, FALSE)
    \/ IrqScanDone

SpecScan == Init /\ [][ScanNext]_vars

\* Connecting: the caller finds the sensor by a scan or names it, connects
\* and disconnects; the radio stack reports advertisements and links that
\* open and close.
ConnectNext ==
    \/ SetSearchAddr(Target)
    \/ Scan(None, FALSE)
    \/ \E a \in Addrs, t \in AddrTypes :
          IrqScanResult(t, a, ADV_IND, -60, "", FALSE)
    \/ \E t \in Opt({ADDR_TYPE_RANDOM}), a \in Opt({Target}),
          cb \in Callbacks(UserFns) : GapConnect(t, a, cb, FALSE)
    \/ Disconnect(FALSE)
    \/ \E h \in ConnHandles, t \in AddrTypes, a \in Addrs :
          IrqPeripheralConnect(h, t, a)
    \/ \E h \in ConnHandles : IrqPeripheralDisconnect(h)

SpecConnect == Init /\ [][ConnectNext]_vars

\* Connecting and discovering: the caller connects to the sensor, sets
\* search_service, discovers services and characteristics and disconnects;
\* the radio stack reports links, services and characteristics.
DiscoverNext ==
    \/ GapConnect(Some(ADDR_TYPE_RANDOM), Some(Target), None, FALSE)
    \/ \E u \in Uuids : SetSearchService(u)
    \/ \E cb \in Callbacks(UserFns) : DiscoverServices(cb, FALSE)
    \/ \E cb \in Callbacks(UserFns) : DiscoverCharacteristics(1, 255, cb, FALSE)
    \/ Disconnect(FALSE)
    \/ \E h \in ConnHandles : IrqPeripheralConnect(h, ADDR_TYPE_RANDOM, Target)
    \/ \E h \in ConnHandles : IrqPeripheralDisconnect(h)
    \/ \E h \in ConnHandles, u \in Uuids : IrqGattcServiceResult(h, u)
    \/ \E h \in ConnHandles : IrqGattcServiceDone(h)
    \/ \E h \in ConnHandles, u \in CharUuids : IrqGattcCharacteristicResult(h, u)
    \/ \E h \in ConnHandles : IrqGattcCharacteristicDone(h)

SpecDiscover == Init /\ [][DiscoverNext]_vars

\* Connecting and reading: the caller connects to the sensor, reads the three
\* quantities (or the attribute last selected) and disconnects; the radio
\* stack reports links, read results and write completions.
ReadNext ==
    \/ GapConnect(Some(ADDR_TYPE_RANDOM), Some(Target), None, FALSE)
    \/ Disconnect(FALSE)
    \/ \E cb \in Callbacks({"user"}) : Read(cb, FALSE)
    \/ \E cb \in Callbacks({"read_battery_level_done", "user"}) :
          ReadBatteryLevel(cb, FALSE)
    \/ \E cb \in Callbacks({"read_temp_sensor_done"}) : ReadTempSensor(cb, FALSE)
    \/ \E cb \in Callbacks({"read_humid_sensor_done"}) : ReadHumidSensor(cb, FALSE)
    \/ \E h \in ConnHandles : IrqPeripheralConnect(h, ADDR_TYPE_RANDOM, Target)
    \/ \E h \in ConnHandles : IrqPeripheralDisconnect(h)
    \/ \E h \in ConnHandles, vh \in ValueHandles, d \in Payloads :
          IrqGattcReadResult(h, vh, d)
    \/ IrqGattcReadDone
    \/ \E h \in ConnHandles, vh \in ValueHandles : IrqGattcWriteDone(h, vh)

SpecRead == Init /\ [][ReadNext]_vars

\* A radio stack that may reject any request (OSError, e.g. out of
\* resources): the caller scans, connects, discovers, reads and disconnects,
\* and the radio stack reports the link.
RejectNext ==
    \/ \E rej \in BOOLEAN : Scan(None, rej)
    \/ \E rej \in BOOLEAN :
          GapConnect(Some(ADDR_TYPE_RANDOM), Some(Target), None, rej)
    \/ \E rej \in BOOLEAN : Disconnect(rej)
    \/ \E rej \in BOOLEAN : DiscoverServices(None, rej)
    \/ \E rej \in BOOLEAN : DiscoverCharacteristics(1, 255, None, rej)
    \/ \E cb \in Callbacks(UserFns), rej \in BOOLEAN : Read(cb, rej)
    \/ \E rej \in BOOLEAN : ReadBatteryLevel(None, rej)
    \/ \E rej \in BOOLEAN : ReadTempSensor(None, rej)
    \/ \E rej \in BOOLEAN : ReadHumidSensor(None, rej)
    \/ IrqPeripheralConnect(1, ADDR_TYPE_RANDOM, Target)

SpecReject == Init /\ [][RejectNext]_vars

\* Callback objects a caller passes to on_notify: none, or one of two
\* functions of the caller's.
NotifyCallbacks == {None} \cup {Some([id |-> 0, fn |-> f]) : f \in {"user", "print"}}

\* Notifications: the caller connects, selects an attribute by reading it,
\* installs notification callbacks and disconnects; the radio stack reports
\* links and notifications.
NotifyNext ==
    \/ GapConnect(Some(ADDR_TYPE_RANDOM), Some(Target), None, FALSE)
    \/ Disconnect(FALSE)
    \/ ReadBatteryLevel(None, FALSE)
    \/ ReadTempSensor(None, FALSE)
    \/ \E cb \in NotifyCallbacks : OnNotify(cb)
    \/ \E h \in ConnHandles : IrqPeripheralConnect(h, ADDR_TYPE_RANDOM, Target)
    \/ \E h \in ConnHandles : IrqPeripheralDisconnect(h)
    \/ \E h \in ConnHandles, vh \in ValueHandles, d \in Payloads :
          IrqGattcNotify(h, vh, d)

SpecNotify == Init /\ [][NotifyNext]_vars

\* Links that open and close: the caller connects, reads and disconnects,
\* and the radio stack reports links, their ends, read results and the ends
\* of service discoveries.
LinkNext ==
    \/ \E cb \in Callbacks(UserFns), rej \in BOOLEAN :
          GapConnect(Some(ADDR_TYPE_RANDOM), Some(Target), cb, rej)
    \/ \E rej \in BOOLEAN : DisconnectLink(rej)
    \/ \E cb \in Callbacks({"read_battery_level_done"}) : ReadBatteryLevel(cb, FALSE)
    \/ \E h \in ConnHandles : IrqPeripheralConnectLink(h, ADDR_TYPE_RANDOM, Target)
    \/ \E h \in ConnHandles : IrqPeripheralDisconnectLink(h)
    \/ \E h \in ConnHandles : IrqGattcReadResult(h, HANDLE_BATT_LEVEL, <<100>>)
    \/ \E h \in ConnHandles : IrqGattcServiceDone(h)

SpecLink == Init /\ [][LinkNext]_vars

\* The discovery caches: the caller connects, sets search_service and
\* discovers services and characteristics, with no callbacks; the radio
\* stack reports links, their ends, services and characteristics.
CacheNext ==
    \/ GapConnect(Some(ADDR_TYPE_RANDOM), Some(Target), None, FALSE)
    \/ \E u \in Uuids : SetSearchService(u)
    \/ DiscoverServices(None, FALSE)
    \/ DiscoverCharacteristics(1, 255, None, FALSE)
    \/ \E h \in ConnHandles : IrqPeripheralConnect(h, ADDR_TYPE_RANDOM, Target)
    \/ \E h \in ConnHandles : IrqPeripheralDisconnect(h)
    \/ \E h \in ConnHandles, u \in Uuids : IrqGattcServiceResult(h, u)
    \/ \E h \in ConnHandles : IrqGattcServiceDone(h)
    \/ \E h \in ConnHandles, u \in CharUuids : IrqGattcCharacteristicResult(h, u)
    \/ \E h \in ConnHandles : IrqGattcCharacteristicDone(h)

SpecCache == Init /\ [][CacheNext]_vars

\* Timeouts the caller passes to the wait functions, in ms.
WaitTimeouts == {200, 250}

\* Waiting: the caller asks for a connection and waits for it, or waits for
\* the end of a discovery, while the radio stack reports the link and the
\* ends of the discoveries.
WaitNext ==
    \/ GapConnect(Some(ADDR_TYPE_RANDOM), Some(Target), None, FALSE)
    \/ IrqPeripheralConnect(1, ADDR_TYPE_RANDOM, Target)
    \/ IrqGattcServiceDone(1)
    \/ IrqGattcCharacteristicDone(1)
    \/ \E to \in WaitTimeouts : WaitForConnection(TRUE, to)
    \/ \E to \in WaitTimeouts : WaitFor(S_SERVICE_DONE, to)
    \/ WaitPoll
    \/ WaitWake
    \/ Tick

SpecWait == Init /\ [][WaitNext]_vars

\* Waits that time out: the caller connects, reads the battery level with
\* the driver's decoder and waits for the result, while the radio stack
\* reports the link and, at any time, the read result.
TimeoutNext ==
    \/ GapConnect(Some(ADDR_TYPE_RANDOM), Some(Target), None, FALSE)
    \/ IrqPeripheralConnect(1, ADDR_TYPE_RANDOM, Target)
    \/ \E cb \in Callbacks({"read_battery_level_done"}) : ReadBatteryLevel(cb, FALSE)
    \/ IrqGattcReadResult(1, HANDLE_BATT_LEVEL, <<100>>)
    \/ \E to \in WaitTimeouts : WaitFor(S_READ_BATTERY_DONE, to)
    \/ WaitPoll
    \/ WaitWake
    \/ Tick

SpecTimeout == Init /\ [][TimeoutNext]_vars

\* Waiting with time advancing: as in SpecWait, the calls being made early
\* enough for the clock to reach one poll interval past their deadline.  The
\* caller's thread keeps running and time keeps passing (weak fairness); no
\* event needs ever to be delivered.
WaitLiveNext ==
    \/ GapConnect(Some(ADDR_TYPE_RANDOM), Some(Target), None, FALSE)
    \/ IrqPeripheralConnect(1, ADDR_TYPE_RANDOM, Target)
    \/ IrqGattcServiceDone(1)
    \/ IrqGattcCharacteristicDone(1)
    \/ \E to \in WaitTimeouts :
          now + to + T_WAIT <= MaxTime /\ WaitForConnection(TRUE, to)
    \/ \E to \in WaitTimeouts :
          now + to + T_WAIT <= MaxTime /\ WaitFor(S_SERVICE_DONE, to)
    \/ WaitPoll
    \/ WaitWake
    \/ Tick

SpecWaitLive ==
    /\ Init
    /\ [][WaitLiveNext]_vars
    /\ WF_vars(WaitPoll)
    /\ WF_vars(WaitWake)
    /\ WF_vars(Tick)

\* demo_man() against a radio stack that accepts every request and delivers
\* the completion event of each: the session's own methods are the callbacks
\* (they are not counted per trigger and have identity 0), and each step of
\* the sequence is made once the wait before it has seen its condition.
Method(f) == Some([id |-> 0, fn |-> f])

DemoSetSearchAddr ==
    /\ orch = "start"
    /\ StepDemo(Quiet([self EXCEPT !.search_addr = Some(Target)]), None, "",
                FALSE, FALSE, None, closed, "addr")

DemoSetSearchService ==
    /\ orch = "addr"
    /\ StepDemo(Quiet([self EXCEPT !.search_service = Some("1800")]), None, "",
                FALSE, FALSE, None, closed, "service")

DemoScan ==
    /\ orch = "service"
    /\ StepDemo(scan(self, Method("scan_done"), FALSE), None, "scan_callback",
                FALSE, FALSE, None, closed, "scan")

\* wait_for(S_SCAN_DONE) returned true: connect when the sensor was found.
DemoGapConnect ==
    /\ orch = "scan"
    /\ self.state = S_SCAN_DONE
    /\ IF self.addr_found
       THEN StepDemo(gap_connect(self, Some(ADDR_TYPE_RANDOM), Some(Target), None,
                                 FALSE),
                     None, "conn_callback", FALSE, FALSE, None, closed, "connect")
       ELSE StepDemo(Quiet(self), None, "", FALSE, FALSE, None, closed, "end")

\* wait_for_connection(True) returned true.
DemoReadBatteryLevel ==
    /\ orch = "connect"
    /\ is_connected(self)
    /\ StepDemo(read_battery_level(self, Method("read_battery_level_done"), FALSE),
                None, "read_callback", FALSE, FALSE, None, closed, "battery")

DemoReadTempSensor ==
    /\ orch = "battery"
    /\ self.state = S_READ_BATTERY_DONE
    /\ StepDemo(read_temp_sensor(self, Method("read_temp_sensor_done"), FALSE),
                None, "read_callback", FALSE, FALSE, None, closed, "temp")

DemoReadHumidSensor ==
    /\ orch = "temp"
    /\ self.state = S_READ_TSENSOR_DONE
    /\ StepDemo(read_humid_sensor(self, Method("read_humid_sensor_done"), FALSE),
                None, "read_callback", FALSE, FALSE, None, closed, "humid")

DemoReadsDone ==
    /\ orch = "humid"
    /\ self.state = S_READ_HSENSOR_DONE
    /\ StepDemo(Quiet(self), None, "", FALSE, FALSE, None, closed, "end")

demo_man ==
    \/ DemoSetSearchAddr
    \/ DemoSetSearchService
    \/ DemoScan
    \/ DemoGapConnect
    \/ DemoReadBatteryLevel
    \/ DemoReadTempSensor
    \/ DemoReadHumidSensor
    \/ DemoReadsDone

\* The completion events of the requests of demo_man(): an advertisement of
\* the sensor while the scan runs and the end of the scan after it, the
\* connection to the address asked for, and the value of the attribute asked
\* for (one byte for the battery level, a 4-byte float for the others).
AttributeValue(vh) == IF vh = HANDLE_BATT_LEVEL THEN <<100>> ELSE <<0, 0, 188, 65>>

DeliverScanResult ==
    /\ orch = "scan"
    /\ self.addr = None
    /\ \E t \in AddrTypes, adv \in ConnectableAdv, nm \in AdvNames :
          IrqScanResult(t, Target, adv, -60, nm, FALSE)

DeliverScanDone ==
    /\ orch = "scan"
    /\ self.addr # None
    /\ self.scan_callback # None
    /\ IrqScanDone

DeliverConnect ==
    /\ orch = "connect"
    /\ self.conn_handle = None
    /\ \E h \in ConnHandles : IrqPeripheralConnect(h, ADDR_TYPE_RANDOM, Target)

DeliverReadResult ==
    /\ orch \in {"battery", "temp", "humid"}
    /\ self.read_callback # None
    /\ IrqGattcReadResult(self.conn_handle[1], self.value_handle[1],
                          AttributeValue(self.value_handle[1]))

\* Events that complete no request of demo_man(): other advertisements while
\* the scan runs, read-done events and notifications while connected.
DemoOtherEvents ==
    \/ /\ orch = "scan"
       /\ \E a \in Addrs, adv \in AdvTypes :
             /\ a # Target \/ adv \notin ConnectableAdv
             /\ IrqScanResult(ADDR_TYPE_RANDOM, a, adv, -60, "", FALSE)
    \/ /\ is_connected(self)
       /\ IrqGattcReadDone
    \/ /\ is_connected(self)
       /\ \E vh \in ValueHandles :
             IrqGattcNotify(self.conn_handle[1], vh, AttributeValue(vh))

DemoNext ==
    \/ demo_man
    \/ DeliverScanResult
    \/ DeliverScanDone
    \/ DeliverConnect
    \/ DeliverReadResult
    \/ DemoOtherEvents

\* demo_man() keeps running and every completion event is delivered in the
\* end; the other events may or may not come.
SpecDemo ==
    /\ Init
    /\ [][DemoNext]_vars
    /\ WF_vars(demo_man)
    /\ WF_vars(DeliverScanResult)
    /\ WF_vars(DeliverScanDone)
    /\ WF_vars(DeliverConnect)
    /\ WF_vars(DeliverReadResult)

\* Callbacks that trigger again: the caller connects and reads with
\* callbacks that may trigger the same kind of operation from inside, and the
\* radio stack reports connections, read results and disconnections.
AgainNext ==
    \/ \E cb \in Callbacks({"user", "connect_again"}) :
          GapConnect(Some(ADDR_TYPE_RANDOM), Some(Target), cb, FALSE)
    \/ \E h \in ConnHandles : IrqPeripheralConnect(h, ADDR_TYPE_RANDOM, Target)
    \/ \E cb \in Callbacks({"user", "read_again"}) : ReadBatteryLevel(cb, FALSE)
    \/ \E cb \in Callbacks({"user", "read_again"}) : ReadTempSensor(cb, FALSE)
    \/ \E h \in ConnHandles, vh \in {HANDLE_BATT_LEVEL, HANDLE_TEMPERATURE} :
          IrqGattcReadResult(h, vh, AttributeValue(vh))
    \/ \E h \in ConnHandles : IrqPeripheralDisconnect(h)

SpecAgain == Init /\ [][AgainNext]_vars

\* A whole session: the caller connects, discovers, reads the three
\* quantities with their decoders and disconnects, in any order; the radio
\* stack reports connections, disconnections, the ends of the discoveries and
\* read results.
SessionNext ==
    \/ GapConnect(Some(ADDR_TYPE_RANDOM), Some(Target), None, FALSE)
    \/ Disconnect(FALSE)
    \/ \E cb \in Callbacks(UserFns) \ {None} : DiscoverServices(cb, FALSE)
    \/ \E cb \in Callbacks(UserFns) \ {None} :
          DiscoverCharacteristics(1, 255, cb, FALSE)
    \/ \E cb \in Callbacks({"read_battery_level_done"}) \ {None} :
          ReadBatteryLevel(cb, FALSE)
    \/ \E cb \in Callbacks({"read_temp_sensor_done"}) \ {None} :
          ReadTempSensor(cb, FALSE)
    \/ \E cb \in Callbacks({"read_humid_sensor_done"}) \ {None} : ReadHumidSensor(cb, FALSE)
    \/ \E h \in ConnHandles : IrqPeripheralConnect(h, ADDR_TYPE_RANDOM, Target)
    \/ \E h \in ConnHandles : IrqPeripheralDisconnect(h)
    \/ IrqGattcServiceDone(1)
    \/ IrqGattcCharacteristicDone(1)
    \/ \E vh \in ValueHandles : IrqGattcReadResult(1, vh, AttributeValue(vh))

SpecSession == Init /\ [][SessionNext]_vars

\* ---------------------------------------------------------------- claims

\* C1: every change of `state` moves it forward along Init < ScanDone <
\* ServiceDiscoveryDone < CharacteristicDiscoveryDone < BatteryReadDone <
\* TemperatureReadDone < HumidityReadDone or sets it to Init; state never
\* decreases to a value other than Init.
C1_StateOnlyForwardOrInit ==
    [][self'.state >= self.state \/ self'.state = S_INIT]_vars

\* C2: a callback stored by one trigger call is invoked at most once, however
\* many completion events follow, and never when its trigger was refused.
C2_InvokedAtMostOnce ==
    \A i \in Ids : ninv[i] <= 1 /\ (gone[i] = "refused" => ninv[i] = 0)

\* C3: a callback that was pending when a trigger of the same kind was called
\* again is not invoked by any later event: no invoked one-shot callback is
\* one that a later same-kind trigger call found pending.
C3_ReplacedNeverInvoked ==
    \A k \in 1..Len(calls) :
        calls[k].slot \in OneShot => gone[calls[k].id] \notin OneShot

\* C3 witness: a read callback was replaced before it was ever invoked, and
\* a read result has then invoked the callback of the later read trigger.
C3_Witness ==
    \E i \in Ids, j \in Ids :
        /\ i # j
        /\ gone[i] = "read_callback"
        /\ ninv[i] = 0
        /\ Len(calls) = 1
        /\ calls[1].slot = "read_callback"
        /\ calls[1].id = j

\* An event that carries connection handle h is a stale event when h is not
\* the session's connection_handle, and an event that also carries value
\* handle vh when either differs from the session's.
StaleConn(h) == Some(h) # self.conn_handle
StaleValue(h, vh) == Some(h) # self.conn_handle \/ Some(vh) # self.value_handle

\* C4: an event whose connection handle (or value handle) differs from the
\* session's changes no session field and invokes no callback.
C4_StaleEventIgnored ==
    [][\A h \in ConnHandles :
         (\/ StaleConn(h) /\ IrqPeripheralDisconnect(h)
          \/ StaleConn(h) /\ \E u \in Uuids : IrqGattcServiceResult(h, u)
          \/ StaleConn(h) /\ IrqGattcServiceDone(h)
          \/ StaleConn(h) /\ \E u \in CharUuids : IrqGattcCharacteristicResult(h, u)
          \/ StaleConn(h) /\ IrqGattcCharacteristicDone(h)
          \/ \E vh \in ValueHandles, d \in Payloads :
                StaleValue(h, vh) /\ IrqGattcReadResult(h, vh, d)
          \/ \E vh \in ValueHandles : StaleValue(h, vh) /\ IrqGattcWriteDone(h, vh)
          \/ \E vh \in ValueHandles, d \in Payloads :
                StaleValue(h, vh) /\ IrqGattcNotify(h, vh, d))
         => (self' = self /\ calls' = <<>>)]_vars

\* A discovery cache that holds nothing: never assigned, or an empty dict.
EmptyCache(c) == c = None \/ c = Some(EmptyDict)

\* C5: after a disconnect event for the session's own connection handle,
\* connection_handle is absent, state is Init, the telemetry fields,
\* last_value and the services and characteristics caches are empty and
\* every one-shot slot is empty; and no callback that was pending at such an
\* event is invoked by a later event.
C5_DisconnectEventResets ==
    /\ [][\A h \in ConnHandles :
            (Some(h) = self.conn_handle /\ IrqPeripheralDisconnect(h))
            => /\ self'.conn_handle = None
               /\ self'.state = S_INIT
               /\ self'.battery = None
               /\ self'.temperature = None
               /\ self'.humidity = None
               /\ self'.value = None
               /\ EmptyCache(self'.services)
               /\ EmptyCache(self'.characteristics)
               /\ \A k \in OneShot : self'[k] = None]_vars
    /\ [](\A k \in 1..Len(calls) :
            calls[k].slot \in OneShot => gone[calls[k].id] # "reset")

\* C6: a connect event whose address or address type differs from the sought
\* one changes nothing (connection_handle stays as it was) and invokes
\* nothing; one whose address and type equal the sought ones stores its
\* handle in connection_handle, invokes the pending connect callback exactly
\* once and leaves the connect slot empty.
C6_ConnectEvent ==
    [][\A h \in ConnHandles, t \in AddrTypes, a \in Addrs :
         IrqPeripheralConnect(h, t, a)
         => IF Some(t) = self.addr_type /\ Some(a) = self.addr
            THEN /\ self'.conn_handle = Some(h)
                 /\ self'.conn_callback = None
                 /\ IF self.conn_callback = None
                    THEN calls' = <<>>
                    ELSE /\ Len(calls') = 1
                         /\ calls'[1].slot = "conn_callback"
                         /\ calls'[1].id = self.conn_callback[1].id
                         /\ ninv'[calls'[1].id] = 1
            ELSE self' = self /\ calls' = <<>>]_vars

\* C6 witness: a connect event for the sought address has just stored its
\* handle and invoked the pending connect callback, for the first time, and
\* the slot is empty.
C6_Witness ==
    /\ Len(calls) = 1
    /\ calls[1].slot = "conn_callback"
    /\ ninv[calls[1].id] = 1
    /\ self.conn_handle # None
    /\ self.conn_callback = None

\* What C7 says of a scan-done event that follows a scan result accepted by
\* Accept(adv), with a scan callback pending: the callback is invoked exactly
\* once, with the advertiser's address type and address and the session's
\* name, and the slot is left empty.
ScanDoneReports(Accept(_)) ==
    (/\ IrqScanDone
     /\ self.scan_callback # None
     /\ last_adv # None
     /\ Some(last_adv[1][2]) = self.search_addr
     /\ Accept(last_adv[1][3]))
    => /\ Len(calls') = 1
       /\ calls'[1].slot = "scan_callback"
       /\ calls'[1].id = self.scan_callback[1].id
       /\ calls'[1].args = <<Some(last_adv[1][1]), Some(last_adv[1][2]), self.name>>
       /\ self'.scan_callback = None

\* The router does not assign `state` on scan-result or scan-done: it changes
\* only when the callback invoked is the driver's scan_done.
RouterLeavesState ==
    /\ (\E t \in AddrTypes, a \in Addrs, adv \in AdvTypes, rs \in Rssis,
           nm \in AdvNames : IrqScanResult(t, a, adv, rs, nm, FALSE))
       => self'.state = self.state
    /\ (IrqScanDone /\ \A k \in 1..Len(calls') : calls'[k].fn # "scan_done")
       => self'.state = self.state

AnyAdv(adv) == TRUE
IsConnectableAdv(adv) == adv \in {ADV_IND, ADV_DIRECT_IND, ADV_SCAN_RSP}

\* C7 as stated: after scan(callback), a scan-result event for exactly
\* search_address followed by a scan-done event invokes the scan callback
\* exactly once with (address_type, address, name) of that advertiser and
\* leaves the scan slot empty; the router does not assign `state`.
C7_Original == [][ScanDoneReports(AnyAdv) /\ RouterLeavesState]_vars

\* C7 amended: the same, for a scan-result event for search_address whose
\* advertising type is ADV_IND, ADV_DIRECT_IND or SCAN_RSP (the types the
\* router accepts).
C7_ScanResultThenDone == [][ScanDoneReports(IsConnectableAdv) /\ RouterLeavesState]_vars

\* C7 witness: a scan-done event has invoked the scan callback with the
\* address of the sensor sought, found by the scan, and emptied the slot.
C7_Witness ==
    /\ Len(calls) = 1
    /\ calls[1].slot = "scan_callback"
    /\ calls[1].args = <<Some(ADDR_TYPE_RANDOM), Some(Target), self.name>>
    /\ self.addr_found
    /\ self.search_addr = Some(Target)
    /\ self.scan_callback = None

\* C8: disconnect() does nothing exactly when connection_handle is absent;
\* for every present handle, 0 included, it requests link termination for
\* that handle and resets the session, so is_connected() is false after it.
C8_DisconnectWhenConnected ==
    [][Disconnect(FALSE)
       => IF self.conn_handle = None
          THEN self' = self /\ radio' = <<>>
          ELSE /\ radio' = <<Req("gap_disconnect", <<self.conn_handle[1]>>, FALSE)>>
               /\ ~is_connected(self')]_vars

\* The session with a never-assigned discovery cache read as an empty one.
WithCaches(s) ==
    [s EXCEPT !.services = IF @ = None THEN Some(EmptyDict) ELSE @,
              !.characteristics = IF @ = None THEN Some(EmptyDict) ELSE @]

\* C9: a connected-only trigger called while connection_handle is absent
\* changes no session field (the discovery caches included), makes no
\* radio-stack request and invokes no callback.
C9_RefusedTriggerNoOp ==
    [][(/\ self.conn_handle = None
        /\ \/ \E cb \in Callbacks(UserFns) : DiscoverServices(cb, FALSE)
           \/ \E cb \in Callbacks(UserFns) : DiscoverCharacteristics(1, 255, cb, FALSE)
           \/ \E cb \in Callbacks(ReadFns) : Read(cb, FALSE)
           \/ \E cb \in Callbacks(ReadFns) : ReadBatteryLevel(cb, FALSE)
           \/ \E cb \in Callbacks(ReadFns) : ReadTempSensor(cb, FALSE)
           \/ \E cb \in Callbacks(ReadFns) : ReadHumidSensor(cb, FALSE))
       => /\ WithCaches(self') = WithCaches(self)
          /\ radio' = <<>>
          /\ calls' = <<>>]_vars

\* C10: connect called with no explicit address and none cached returns the
\* failure indicator, makes no radio-stack request, invokes nothing and does
\* not store the callback; with an address available it stores the callback
\* and requests link establishment to that address.
C10_ConnectNeedsAddress ==
    [][\A t \in Opt(AddrTypes), a \in Opt(Addrs), cb \in Callbacks(UserFns) :
         GapConnect(t, a, cb, FALSE)
         => IF NoAddress(t, a)
            THEN /\ ret' = "False"
                 /\ radio' = <<>>
                 /\ calls' = <<>>
                 /\ self'.conn_callback = self.conn_callback
            ELSE /\ self'.conn_callback = cb
                 /\ radio' = <<Req("gap_connect",
                                   <<self'.addr_type[1], self'.addr[1]>>, FALSE)>>]_vars

\* What C11 says of a trigger step whose request the radio stack rejected,
\* acc being the outcome of the same call had the request been accepted: the
\* call returns (None, or False from connect) rather than raising, invokes no
\* callback, and leaves state and connection_handle as on acceptance.
SwallowsRejection(acc) ==
    radio' # <<>>
    => /\ ~radio'[1].ok
       /\ ret' \in {"None", "False"}
       /\ calls' = <<>>
       /\ self'.state = acc.s.state
       /\ self'.conn_handle = acc.s.conn_handle

\* C11: when the radio stack rejects the request made by a trigger, the
\* trigger returns normally, no callback is invoked, and state and
\* connection_handle are left as the trigger leaves them on acceptance.
C11_RejectionSwallowed ==
    [][/\ Scan(None, TRUE) => SwallowsRejection(scan(self, None, FALSE))
       /\ \A cb \in Callbacks(UserFns) :
            Read(cb, TRUE) => SwallowsRejection(read(self, cb, FALSE))
       /\ GapConnect(Some(ADDR_TYPE_RANDOM), Some(Target), None, TRUE)
          => SwallowsRejection(gap_connect(self, Some(ADDR_TYPE_RANDOM),
                                           Some(Target), None, FALSE))
       /\ Disconnect(TRUE) => SwallowsRejection(disconnect(self, FALSE))
       /\ DiscoverServices(None, TRUE)
          => SwallowsRejection(discover_services(self, None, FALSE))
       /\ DiscoverCharacteristics(1, 255, None, TRUE)
          => SwallowsRejection(discover_characteristics(self, 1, 255, None, FALSE))
       /\ ReadBatteryLevel(None, TRUE)
          => SwallowsRejection(read_battery_level(self, None, FALSE))
       /\ ReadTempSensor(None, TRUE)
          => SwallowsRejection(read_temp_sensor(self, None, FALSE))
       /\ ReadHumidSensor(None, TRUE)
          => SwallowsRejection(read_humid_sensor(self, None, FALSE))]_vars

\* C11 witness: a read on a connected session stored its callback, the radio
\* stack rejected the read request, and the call returned normally.
C11_Witness ==
    /\ Len(radio) = 1
    /\ radio[1].op = "gattc_read"
    /\ ~radio[1].ok
    /\ ret = "None"
    /\ self.read_callback # None
    /\ is_connected(self)

\* The payload d is shorter than the fixed layout of the decoder fn: one byte
\* for the battery level, four for temperature and for humidity.
ShortFor(fn, d) ==
    \/ fn = "read_battery_level_done" /\ Len(d) < 1
    \/ fn \in {"read_temp_sensor_done", "read_humid_sensor_done"} /\ Len(d) < 4

\* C12: when a read result hands a decoder a payload shorter than its fixed
\* layout, the decoder fails explicitly (it raises): no telemetry value is
\* written, and state and the other telemetry fields are unchanged.
C12_ShortPayloadFails ==
    [][\A k \in 1..Len(calls') :
         (calls'[k].slot = "read_callback" /\ ShortFor(calls'[k].fn, calls'[k].args))
         => /\ calls'[k].raised
            /\ ret' = "ValueError"
            /\ self'.battery = self.battery
            /\ self'.temperature = self.temperature
            /\ self'.humidity = self.humidity
            /\ self'.state = self.state]_vars

\* C12 witness: the temperature decoder was handed a one-byte payload by a
\* read result and raised, and no temperature has been written.
C12_Witness ==
    /\ Len(calls) = 1
    /\ calls[1].fn = "read_temp_sensor_done"
    /\ Len(calls[1].args) = 1
    /\ calls[1].raised
    /\ ret = "ValueError"
    /\ self.temperature = None

\* C13: after on_notify(callback), every notify event whose connection
\* handle and value handle match the session's stores its payload as
\* last_value and invokes that callback with the payload, without clearing
\* the slot; any other notify event invokes nothing; and the slot changes
\* only when on_notify replaces the callback or the session resets.
C13_NotifyPersistent ==
    [][/\ \A h \in ConnHandles, vh \in ValueHandles, d \in Payloads :
            IrqGattcNotify(h, vh, d)
            => IF Some(h) = self.conn_handle /\ Some(vh) = self.value_handle
               THEN /\ self'.value = Some(d)
                    /\ self'.notify_callback = self.notify_callback
                    /\ calls' = IF self.notify_callback = None
                                THEN <<>>
                                ELSE <<Call("notify_callback",
                                            self.notify_callback[1], d, FALSE)>>
               ELSE self' = self /\ calls' = <<>>
       /\ self'.notify_callback # self.notify_callback
          => \/ \E cb \in NotifyCallbacks : OnNotify(cb)
             \/ self' = Reset(self)]_vars

\* C13 witness: a matching notify event has stored its payload as last_value
\* and invoked the installed notification callback with it, and the callback
\* is still installed.
C13_Witness ==
    /\ Len(calls) = 1
    /\ calls[1].slot = "notify_callback"
    /\ self.notify_callback = Some([id |-> 0, fn |-> calls[1].fn])
    /\ self.value = Some(calls[1].args)
    /\ calls[1].args = <<100>>

\* C14: after disconnect() was called on a connected session, the disconnect
\* event the radio stack later delivers for that link finds no matching
\* handle and changes no session field, whatever happened in between.
C14_LateDisconnectEventNoOp ==
    [][\A h \in ConnHandles :
         (h \in closed /\ IrqPeripheralDisconnectLink(h)) => self' = self]_vars

\* What C15 says of a scan-result event, Accept(adv) being the condition on
\* its advertising type: when the advertiser's address equals search_address
\* and the type is accepted, the event records address, address type, rssi
\* and (when the advertisement carries one) name, sets address_found and
\* requests the radio stack to stop scanning; otherwise it changes no session
\* field and makes no radio-stack request.
ScanResultRecords(Accept(_)) ==
    last_adv' # None
    => LET t == last_adv'[1][1]
           a == last_adv'[1][2]
           adv == last_adv'[1][3]
       IN \A rs \in Rssis, nm \in AdvNames :
            IrqScanResult(t, a, adv, rs, nm, FALSE)
            => IF Some(a) = self.search_addr /\ Accept(adv)
               THEN /\ self' = [self EXCEPT !.addr = Some(a),
                                            !.addr_type = Some(t),
                                            !.rssi = rs,
                                            !.name = IF nm # "" THEN Some(nm) ELSE @,
                                            !.addr_found = TRUE]
                    /\ radio' = <<Req("gap_scan", <<None>>, FALSE)>>
               ELSE self' = self /\ radio' = <<>>

\* The connectable advertising types (src/smart_gadget.py:140-141).
IsConnectableType(adv) == adv \in {ADV_IND, ADV_DIRECT_IND}

\* C15 as stated: a scan-result event records the advertiser, sets
\* address_found and requests the end of the scan if and only if the
\* advertiser address equals search_address and the advertising type is
\* connectable; any other scan-result event leaves every session field
\* unchanged and makes no radio-stack call.
C15_Original == [][ScanResultRecords(IsConnectableType)]_vars

\* C15 amended: the same, the accepted advertising types being ADV_IND,
\* ADV_DIRECT_IND and SCAN_RSP (a scan response, which is not a connectable
\* advertising type).
C15_ScanResultRecorded == [][ScanResultRecords(IsConnectableAdv)]_vars

\* C15 witness: a scan response from the sensor sought has been recorded
\* and the radio stack asked to stop scanning.
C15_Witness ==
    /\ last_adv = Some(<<ADDR_TYPE_RANDOM, Target, ADV_SCAN_RSP>>)
    /\ self.addr = Some(Target)
    /\ self.addr_type = Some(ADDR_TYPE_RANDOM)
    /\ self.addr_found
    /\ self.rssi = -60
    /\ radio = <<Req("gap_scan", <<None>>, FALSE)>>

C17_DiscoveryCaches ==
    [][/\ (is_connected(self) /\ DiscoverServices(None, FALSE))
          => self'.services = Some(EmptyDict)
       /\ (is_connected(self) /\ DiscoverCharacteristics(1, 255, None, FALSE))
          => self'.characteristics = Some(EmptyDict)
       /\ \A h \in ConnHandles, u \in Uuids :
            (/\ IrqGattcServiceResult(h, u)
             /\ Some(h) = self.conn_handle
             /\ self.services # None)
            => /\ self'.services = Some(DictPut(self.services[1], u, ServiceRange(u)))
               /\ Some(u) = self.search_service
                  => /\ self'.start_handle = Some(ServiceRange(u)[1])
                     /\ self'.end_handle = Some(ServiceRange(u)[2])
       /\ \A h \in ConnHandles, u \in CharUuids :
            (/\ IrqGattcCharacteristicResult(h, u)
             /\ Some(h) = self.conn_handle
             /\ self.characteristics # None)
            => self'.characteristics =
                  Some(DictPut(self.characteristics[1], u, CharEntry(u)))
       /\ self'.services # self.services
          => \/ DiscoverServices(None, FALSE)
             \/ \E h \in ConnHandles, u \in Uuids :
                   Some(h) = self.conn_handle /\ IrqGattcServiceResult(h, u)
       /\ self'.characteristics # self.characteristics
          => \/ DiscoverCharacteristics(1, 255, None, FALSE)
             \/ \E h \in ConnHandles, u \in CharUuids :
                   Some(h) = self.conn_handle /\ IrqGattcCharacteristicResult(h, u)]_vars

\* C17 witness: a service discovery on a connected session has ended with
\* the services cache holding exactly the one service reported, which is
\* search_service, and with its range remembered.
C17_Witness ==
    /\ is_connected(self)
    /\ self.state = S_SERVICE_DONE
    /\ self.search_service = Some("180F")
    /\ self.services = Some(DictPut(EmptyDict, "180F", ServiceRange("180F")))
    /\ self.start_handle = Some(27)
    /\ self.end_handle = Some(29)

\* The step made exactly one radio-stack request, op.
OneRequest(op) == Len(radio') = 1 /\ radio'[1].op = op
\* The step made no radio-stack request, or its first one was op.
NoOther(op) == radio' = <<>> \/ radio'[1].op = op

\* C18: every trigger call whose precondition holds (scan; connect with an
\* address available; disconnect when connected; a connected-only trigger
\* when connected) makes exactly one radio-stack request, and every GATT
\* request carries the session's connection_handle.
C18_OneRequestPerTrigger ==
    [][/\ (NoOther("gap_scan") /\ Scan(None, FALSE)) => OneRequest("gap_scan")
       /\ \A t \in Opt({ADDR_TYPE_RANDOM}), a \in Opt({Target}),
             cb \in Callbacks(UserFns) :
            (NoOther("gap_connect") /\ ~NoAddress(t, a) /\ GapConnect(t, a, cb, FALSE))
            => OneRequest("gap_connect")
       /\ (NoOther("gap_disconnect") /\ is_connected(self) /\ Disconnect(FALSE))
          => OneRequest("gap_disconnect")
       /\ (/\ NoOther("gattc_discover_services")
           /\ is_connected(self)
           /\ DiscoverServices(None, FALSE))
          => /\ OneRequest("gattc_discover_services")
             /\ radio'[1].args[1] = self.conn_handle[1]
       /\ (/\ NoOther("gattc_discover_characteristics")
           /\ is_connected(self)
           /\ DiscoverCharacteristics(1, 255, None, FALSE))
          => /\ OneRequest("gattc_discover_characteristics")
             /\ radio'[1].args[1] = self.conn_handle[1]
       /\ (/\ NoOther("gattc_read")
           /\ is_connected(self)
           /\ \/ Read(None, FALSE)
              \/ ReadBatteryLevel(None, FALSE)
              \/ ReadTempSensor(None, FALSE)
              \/ ReadHumidSensor(None, FALSE))
          => /\ OneRequest("gattc_read")
             /\ radio'[1].args[1] = self.conn_handle]_vars

\* C19: wait_for_connection(True, timeout) returns true if a connect event
\* for the matching address is delivered before the deadline, and false if
\* none is delivered within the timeout.
C19_WaitForConnection ==
    (wait.pc = "done" /\ wait.kind = "connection" /\ wait.status)
    => (wait.result <=> wait.hit)

\* C20: wait_for(state, timeout) returns success whenever `state` equalled
\* the target at some instant before the deadline (at the call included, and
\* also when state has moved on between two polls), and failure only if it
\* never did.
C20_WaitForState ==
    (wait.pc = "done" /\ wait.kind = "state") => (wait.result <=> wait.hit)

\* C21: a wait-for call changes no session field, so the one-shot callback
\* of the awaited operation is still pending when the call has timed out;
\* and a matching completion event delivered after the timeout still invokes
\* that callback and applies its state change.
C21_TimeoutCancelsNothing ==
    [][/\ wait'.pc # wait.pc => self' = self
       /\ (/\ wait.pc = "done"
           /\ ~wait.result
           /\ self.read_callback # None
           /\ IrqGattcReadResult(1, HANDLE_BATT_LEVEL, <<100>>)
           /\ Some(1) = self.conn_handle
           /\ Some(HANDLE_BATT_LEVEL) = self.value_handle)
          => /\ Len(calls') = 1
             /\ calls'[1].id = self.read_callback[1].id
             /\ self'.state = S_READ_BATTERY_DONE
             /\ self'.battery # None]_vars

\* C21 witness: wait_for(S_READ_BATTERY_DONE) returned false, the state not
\* having been reached before its deadline, and the read result that came
\* later has invoked the decoder stored by the read, which set the state.
C21_Witness ==
    /\ wait.pc = "done"
    /\ wait.kind = "state"
    /\ ~wait.result
    /\ ~wait.hit
    /\ Len(calls) = 1
    /\ calls[1].fn = "read_battery_level_done"
    /\ self.state = S_READ_BATTERY_DONE
    /\ self.read_callback = None

\* The result decoders.
Decoders == {"read_battery_level_done", "read_temp_sensor_done",
             "read_humid_sensor_done"}

\* C22: on a payload of sufficient length each decoder sets only its own
\* telemetry field and state: the battery decoder sets battery to the
\* unsigned value of the first payload byte and state to BatteryReadDone,
\* the temperature decoder temperature and TemperatureReadDone, the humidity
\* decoder humidity and HumidityReadDone; the other two telemetry fields,
\* connection_handle and the other callback slots are unchanged.
C22_DecoderSetsOwnField ==
    [][\A k \in 1..Len(calls') :
         LET c == calls'[k] IN
         (c.slot = "read_callback" /\ c.fn \in Decoders /\ ~ShortFor(c.fn, c.args))
         => /\ c.fn = "read_battery_level_done"
               => /\ self'.battery = Some(PyScalar(c.args[1]))
                  /\ self'.state = S_READ_BATTERY_DONE
                  /\ self'.temperature = self.temperature
                  /\ self'.humidity = self.humidity
            /\ c.fn = "read_temp_sensor_done"
               => /\ self'.temperature # None
                  /\ self'.state = S_READ_TSENSOR_DONE
                  /\ self'.battery = self.battery
                  /\ self'.humidity = self.humidity
            /\ c.fn = "read_humid_sensor_done"
               => /\ self'.humidity # None
                  /\ self'.state = S_READ_HSENSOR_DONE
                  /\ self'.battery = self.battery
                  /\ self'.temperature = self.temperature
            /\ self'.conn_handle = self.conn_handle
            /\ \A slot \in (OneShot \ {"read_callback"}) \cup {"notify_callback"} :
                  self'[slot] = self[slot]]_vars

\* C23: wait_for and wait_for_connection always terminate: with time
\* advancing, a call has returned (true or false) no later than one poll
\* interval after its deadline, whether or not any event is delivered.
C23_WaitTerminates ==
    /\ [](wait.pc \in {"loop", "sleep"}
          => now <= wait.t0 + wait.timeout + T_WAIT)
    /\ (wait.pc = "loop") ~> (wait.pc = "done")

\* C23 witness: a wait_for call has returned false at or after its deadline,
\* the state waited for never having been seen.
C23_Witness ==
    /\ wait.pc = "done"
    /\ wait.kind = "state"
    /\ ~wait.result
    /\ self.state # wait.state
    /\ now >= wait.t0 + wait.timeout
    /\ now <= wait.t0 + wait.timeout + T_WAIT

\* C24: against a radio stack that accepts every request, delivers the
\* matching completion events and never a disconnect, the sequence scan,
\* connect, read_battery_level, read_temp_sensor, read_humid_sensor eventually
\* reaches state HumidityReadDone with battery, temperature and humidity all
\* present.
C24_DemoReachesHumidity ==
    <>(/\ self.state = S_READ_HSENSOR_DONE
       /\ self.battery # None
       /\ self.temperature # None
       /\ self.humidity # None)

\* C24 witness: the sequence has gone through all its steps and the three
\* quantities are present.
C24_Witness ==
    /\ orch = "end"
    /\ self.state = S_READ_HSENSOR_DONE
    /\ self.battery # None
    /\ self.temperature # None
    /\ self.humidity # None
    /\ is_connected(self)

\* C25: an operation triggered from inside a one-shot callback of its own
\* kind (a read from within the read callback, a connect from within the
\* connect callback) remains pending after the router returns: the callback
\* it stored is still in the slot, to be invoked by the completion event.
C25_TriggeredInsideStaysPending ==
    [][\A k \in 1..Len(calls') :
         /\ (calls'[k].fn = "read_again" /\ radio' # <<>>)
              => self'.read_callback = Again
         /\ (calls'[k].fn = "connect_again" /\ radio' # <<>>)
              => self'.conn_callback = Again]_vars

\* C26: each read trigger being given its own decoder, a decoder is only
\* invoked by a read-result event whose value handle (the one the session
\* holds, which the router compared it to) is the fixed handle of the
\* decoder's quantity, and battery, temperature and humidity only take a new
\* value on a read-result of their own handle.
OwnHandle(fn) ==
    CASE fn = "read_battery_level_done" -> Some(HANDLE_BATT_LEVEL)
      [] fn = "read_temp_sensor_done" -> Some(HANDLE_TEMPERATURE)
      [] fn = "read_humid_sensor_done" -> Some(HANDLE_HUMIDITY)

C27_ConnectedOnlyState ==
    /\ self.state \in {S_READ_BATTERY_DONE, S_READ_TSENSOR_DONE, S_READ_HSENSOR_DONE}
         => self.conn_handle # None
    /\ self.conn_handle = None
         => /\ self.serv_done_callback = None
            /\ self.char_done_callback = None
            /\ self.read_callback = None
            /\ self.write_callback = None

\* C27 witness: a disconnect event has reset a session in which a value had
\* been decoded and a callback was pending.
C27_Witness ==
    /\ self.conn_handle = None
    /\ self.state = S_INIT
    /\ \E i \in Ids : gone[i] = "reset"
    /\ \E i \in Ids : ninv[i] > 0

\* C28: in every reachable state, address_found is true only if a cached
\* address is present and equals search_address; it does not stay true from
\* an earlier scan once scan() has been triggered again.
C28_FoundMeansCached ==
    self.addr_found => (self.addr # None /\ self.addr = self.search_addr)

\* C29: read(callback) never issues a radio-stack read with an absent
\* value_handle: every gattc_read request carries a value handle.
C29_ReadHasValueHandle ==
    [][\A k \in 1..Len(radio') :
         radio'[k].op = "gattc_read" => radio'[k].args[2] # None]_vars

====
